---- MODULE Spec2Model ----
(***************************************************************************)
(* A model of the Scrapper command (src/main.go): one run of main(), the   *)
(* browser it drives through chromedp, the response listener it registers, *)
(* the single deadline of its context and the files it writes.             *)
(***************************************************************************)
EXTENDS Integers, Sequences, FiniteSets, TLC

\* ------------------------------------------------------------------ bounds
\* Network response events delivered to the listener in one run.
MaxEvents == 2
\* <a> elements of the loaded page.
MaxAnchors == 2
\* Largest status code given to the classification in SpecClassify.
MaxCode == 600

\* ------------------------------------------------------------- vocabulary
NoErr == "nil"
ErrBrowser == "browser error"
ErrDeadline == "context deadline exceeded"
ErrExtract == "error extracting links"
ErrUnmarshal == "error unmarshaling JSON"
ErrFS == "file system error"

ProgramName == "scrapper"
\* Command lines: no argument, a URL that does not parse, a URL that does.
BadURL == "http://[::1"
HostURL == "http://example.com/"
ArgLists == {<<ProgramName>>, <<ProgramName, BadURL>>, <<ProgramName, HostURL>>}

\* url.Parse followed by Hostname().
UrlParse(raw) ==
    CASE raw = BadURL  -> [err |-> "invalid URL", hostname |-> ""]
      [] raw = HostURL -> [err |-> NoErr, hostname |-> "example.com"]
      [] OTHER         -> [err |-> NoErr, hostname |-> ""]

\* time.Now().Format(...) of the run.
Timestamps == {"2026-01-01_00-00-00"}

\* filepath.Join("scraped_data", timestamp + "_" + hostname)
ScrapedData == <<"scraped_data">>
FolderPath(ts, host) == ScrapedData \o <<ts, "_", host>>

\* filepath.Join(folderPath, name)
SavePathCwd(folder, name) == << <<".">>, name >>
SavePath(folder, name) == <<folder, name>>

PageHTML == "page.html"
ScreenshotPNG == "screenshot.png"
LinksTXT == "links.txt"
ArtifactNames == {PageHTML, ScreenshotPNG, LinksTXT}

\* ---------------------------------------------------------------- contexts
\* allocCtx (line 69), the browser context (line 73) and the context with the
\* 120 s timeout that shadows it from line 77 on.
AllocCtx == "allocCtx"
BrowserCtx == "browserCtx"
TimeoutCtx == "ctx"

\* The context each chromedp.Run call site passes.
CtxOfBroken(site) == IF site = "shot" THEN BrowserCtx ELSE TimeoutCtx
CtxOf(site) == TimeoutCtx

\* Only the context made by context.WithTimeout carries the deadline.
HasDeadline(c) == c = TimeoutCtx

\* --------------------------------------------------------- response events
Statuses == {[code |-> 200, text |-> "OK"], [code |-> 404, text |-> "Not Found"]}
NoStatus == [code |-> 0, text |-> ""]

\* network.EventResponseReceived: the resource type, the frame the request
\* belongs to, and the response's status.
Events == [type : {"Document", "Other"}, frame : {"main", "sub"}, status : Statuses]

\* The top-level navigation's own response.
IsMainDocument(ev) == ev.type = "Document" /\ ev.frame = "main"

\* The callback given to chromedp.ListenTarget: the new (statusCode,
\* statusText) after event ev.
Listener(ev, cur) == IF ev.type = "Document" THEN ev.status ELSE cur

\* ----------------------------------------------------------- classification
\* The switch of listNetworkRequests: the first case, in source order, whose
\* condition holds.
SwitchShadowed(code) ==
    IF code >= 200 /\ code < 300 THEN "SUCCESSFUL"
    ELSE IF code >= 300 /\ code < 400 THEN "REDIRECTION"
    ELSE IF code >= 400 /\ code < 500 THEN "CLIENT ERROR"
    ELSE IF code = 403 THEN "FORBIDDEN"
    ELSE IF code = 404 THEN "NOT FOUND"
    ELSE IF code >= 500 THEN "SERVER ERROR"
    ELSE "UNKNOWN STATUS"
Switch(code) ==
    IF code >= 200 /\ code < 300 THEN "SUCCESSFUL"
    ELSE IF code >= 300 /\ code < 400 THEN "REDIRECTION"
    ELSE IF code = 403 THEN "FORBIDDEN"
    ELSE IF code = 404 THEN "NOT FOUND"
    ELSE IF code >= 400 /\ code < 500 THEN "CLIENT ERROR"
    ELSE IF code >= 500 THEN "SERVER ERROR"
    ELSE "UNKNOWN STATUS"

\* What listNetworkRequests(code, text) prints: nothing for code 0, else the
\* "Request network" line and the category line.
ListOutput(code, text) ==
    IF code = 0 THEN <<>>
    ELSE << [msg |-> "Request network", code |-> code, text |-> text],
            [msg |-> Switch(code), code |-> code, text |-> text] >>

\* ------------------------------------------------------------ the page
Hrefs == {<<>>, <<"h">>}
\* An <a> element: an HTML anchor (href a string) or an SVG one (href an
\* object whose baseVal is the string).
Anchors == {a \in [svg : BOOLEAN, href : Hrefs] : a.svg => a.href # <<>>}

RECURSIVE SeqsUpTo(_, _)
SeqsUpTo(S, n) ==
    IF n = 0 THEN {<<>>}
    ELSE LET shorter == SeqsUpTo(S, n - 1)
         IN  shorter \cup {Append(s, x) : s \in {t \in shorter : Len(t) = n - 1}, x \in S}
Pages == SeqsUpTo(Anchors, MaxAnchors)

RECURSIVE FilterNonEmpty(_)
FilterNonEmpty(s) ==
    IF s = <<>> THEN <<>>
    ELSE IF Head(s) # <<>> THEN <<Head(s)>> \o FilterNonEmpty(Tail(s))
    ELSE FilterNonEmpty(Tail(s))

\* The script's map and filter: each anchor's href (baseVal for SVG), the
\* empty strings dropped.
ScriptLinksUnfiltered(dom) == [i \in 1..Len(dom) |-> dom[i].href]
ScriptLinks(dom) == FilterNonEmpty([i \in 1..Len(dom) |-> dom[i].href])

\* JSON text as tokens: the brackets, the comma, and a quoted string.
Tok(k) == [tok |-> k, str |-> <<>>]
StrTok(s) == [tok |-> "str", str |-> s]

\* JSON.stringify of an array of strings.
RECURSIVE JsonItems(_)
JsonItems(l) ==
    IF l = <<>> THEN <<>>
    ELSE IF Len(l) = 1 THEN << StrTok(l[1]) >>
    ELSE << StrTok(l[1]), Tok(",") >> \o JsonItems(Tail(l))
JsonStringify(l) == << Tok("[") >> \o JsonItems(l) \o << Tok("]") >>

\* json.Unmarshal into []string: the items of a well-formed array of strings,
\* else an error.
RECURSIVE ParseItems(_)
ParseItems(t) ==
    IF t = <<>> THEN [err |-> ErrUnmarshal, val |-> <<>>]
    ELSE IF Head(t).tok # "str" THEN [err |-> ErrUnmarshal, val |-> <<>>]
    ELSE IF Len(t) = 1 THEN [err |-> NoErr, val |-> <<Head(t).str>>]
    ELSE IF t[2].tok # "," THEN [err |-> ErrUnmarshal, val |-> <<>>]
    ELSE LET rest == ParseItems(Tail(Tail(t)))
         IN  IF rest.err # NoErr THEN rest
             ELSE [err |-> NoErr, val |-> <<Head(t).str>> \o rest.val]
JsonUnmarshal(t) ==
    IF Len(t) < 2 \/ t[1].tok # "[" \/ t[Len(t)].tok # "]"
    THEN [err |-> ErrUnmarshal, val |-> <<>>]
    ELSE IF Len(t) = 2 THEN [err |-> NoErr, val |-> <<>>]
    ELSE ParseItems(SubSeq(t, 2, Len(t) - 1))

\* strings.Join(links, "\n")
RECURSIVE StringsJoin(_, _)
StringsJoin(l, sep) ==
    IF l = <<>> THEN <<>>
    ELSE IF Len(l) = 1 THEN l[1]
    ELSE l[1] \o sep \o StringsJoin(Tail(l), sep)

\* What chromedp.OuterHTML("html") and chromedp.FullScreenshot return when
\* they succeed.
HtmlDocs == {<<"<html>", "</html>">>}
Screenshots == {<<"PNG">>}

\* A line of the program's output (fmt.Print*, log.Print*, log.Fatal).
Line(msg, code, text) == [msg |-> msg, code |-> code, text |-> text]

\* ------------------------------------------------------------------- state
VARIABLES
    pc,           \* the statement main() is at
    osArgs,       \* os.Args
    now,          \* the formatted time of the run
    rawURL,       \* main's rawURL
    folderPath,   \* main's folderPath
    dirs,         \* directories the run has created
    fs,           \* files of the file system: path -> content
    writes,       \* the paths given to os.WriteFile, in order
    output,       \* the lines printed so far
    listening,    \* the context exists and the listener is registered
    expired,      \* the deadline of the timeout context has passed
    statusCode,   \* main's statusCode
    statusText,   \* main's statusText
    nEvents,      \* response events delivered so far
    mainDocSeen,  \* the current navigation's own response has arrived
    mainStatus,   \* the status of the latest top-level navigation response
    calls,        \* the commands sent to the browser, in order
    hung,         \* the browser will not answer the pending command
    err,          \* main's err
    htmlData,     \* main's htmlData
    imgData,      \* main's imgData
    dom,          \* the anchors of the page when the script ran
    links         \* main's links

vars == <<pc, osArgs, now, rawURL, folderPath, dirs, fs, writes, output,
          listening, expired, statusCode, statusText, nEvents, mainDocSeen,
          mainStatus, calls, hung, err, htmlData, imgData, dom, links>>

envVars == <<osArgs, now>>
argVars == <<rawURL, folderPath, dirs>>
fileVars == <<fs, writes>>
listenerVars == <<statusCode, statusText, nEvents, mainDocSeen, mainStatus>>
dataVars == <<htmlData, imgData, dom, links>>

Terminated == pc \in {"done", "fatal"}

\* ctx.Done() of context c.
CtxDone(c) == HasDeadline(c) /\ expired

Init ==
    /\ pc = "start"
    /\ osArgs \in ArgLists
    /\ now \in Timestamps
    /\ rawURL = ""
    /\ folderPath = <<>>
    /\ dirs = {}
    /\ fs = <<>>
    /\ writes = <<>>
    /\ output = <<>>
    /\ listening = FALSE
    /\ expired = FALSE
    /\ statusCode = 0
    /\ statusText = ""
    /\ nEvents = 0
    /\ mainDocSeen = FALSE
    /\ mainStatus = NoStatus
    /\ calls = <<>>
    /\ hung = FALSE
    /\ err = NoErr
    /\ htmlData = <<>>
    /\ imgData = <<>>
    /\ dom = <<>>
    /\ links = <<>>

\* log.Fatal: print and exit.
Fatal(msg, e) ==
    /\ pc' = "fatal"
    /\ output' = Append(output, Line(msg, 0, e))

\* Lines 21-25.
CheckArgs ==
    /\ pc = "start"
    /\ IF Len(osArgs) < 2
       THEN /\ Fatal("Please provide a URL as a command-line argument.", NoErr)
            /\ UNCHANGED rawURL
       ELSE /\ rawURL' = osArgs[2]
            /\ output' = Append(output, Line("Navigating to URL", 0, osArgs[2]))
            /\ pc' = "parse"
    /\ UNCHANGED <<envVars, folderPath, dirs, fileVars, listening, expired,
                   listenerVars, calls, hung, err, dataVars>>

\* Lines 28-36.
ParseURL ==
    /\ pc = "parse"
    /\ LET parsed == UrlParse(rawURL)
       IN  /\ err' = parsed.err
           /\ IF parsed.err # NoErr
              THEN /\ Fatal("Invalid URL", parsed.err)
                   /\ UNCHANGED folderPath
              ELSE /\ folderPath' = FolderPath(now, parsed.hostname)
                   /\ pc' = "mkdir"
                   /\ UNCHANGED output
    /\ UNCHANGED <<envVars, rawURL, dirs, fileVars, listening, expired,
                   listenerVars, calls, hung, dataVars>>

\* Lines 39-43: os.MkdirAll creates the folder and its parent, or fails.
MkdirAll ==
    /\ pc = "mkdir"
    /\ \E e \in {NoErr, ErrFS} :
         IF e # NoErr
         THEN /\ Fatal("Failed to create directory", e)
              /\ UNCHANGED dirs
         ELSE /\ dirs' = dirs \cup {ScrapedData, folderPath}
              /\ output' = Append(output, Line("The Registry folder is created.", 0, NoErr))
              /\ pc' = "setup"
    /\ UNCHANGED <<envVars, rawURL, folderPath, fileVars, listening, expired,
                   listenerVars, calls, hung, err, dataVars>>

\* Lines 57-93: the allocator, the browser context, the timeout context and
\* the listener.
NewContext ==
    /\ pc = "setup"
    /\ listening' = TRUE
    /\ output' = Append(output, Line("Targeting URL", 0, rawURL))
    /\ pc' = "nav1"
    /\ UNCHANGED <<envVars, argVars, fileVars, expired, listenerVars, calls,
                   hung, err, dataVars>>

\* The 120 s of context.WithTimeout (line 77) pass.
Timeout ==
    /\ listening
    /\ ~expired
    /\ ~Terminated
    /\ expired' = TRUE
    /\ UNCHANGED <<pc, envVars, argVars, fileVars, output, listening,
                   listenerVars, calls, hung, err, dataVars>>

\* The browser delivers a response event and the listener (lines 85-93) runs.
\* A navigation's own response comes first and once; frames and subresources
\* of the document follow it, also after the navigation call has returned.
ResponseReceived ==
    /\ listening
    /\ ~expired
    /\ ~Terminated
    /\ nEvents < MaxEvents
    /\ \E ev \in Events :
         /\ IF IsMainDocument(ev)
            THEN pc \in {"nav1_wait", "nav2_wait"} /\ ~mainDocSeen /\ ~hung
            ELSE mainDocSeen
         /\ LET new == Listener(ev, [code |-> statusCode, text |-> statusText])
            IN  /\ statusCode' = new.code
                /\ statusText' = new.text
         /\ mainDocSeen' = (mainDocSeen \/ IsMainDocument(ev))
         /\ mainStatus' = IF IsMainDocument(ev) THEN ev.status ELSE mainStatus
    /\ nEvents' = nEvents + 1
    /\ UNCHANGED <<pc, envVars, argVars, fileVars, output, listening, expired,
                   calls, hung, err, dataVars>>

\* The errors chromedp.Run can return at call site `site`: the context's error
\* once it is done; otherwise, when the browser answers, nil or its error.
RunResults(site) ==
    IF CtxDone(CtxOf(site)) THEN {ErrDeadline}
    ELSE IF hung THEN {}
    ELSE {NoErr, ErrBrowser}

\* chromedp.Run(ctx, action) is entered at call site `site`: the command goes
\* to the browser, which will answer it or not.
BrowserCall(site, cmd, wait) ==
    /\ pc = site
    /\ pc' = wait
    /\ calls' = Append(calls, [cmd |-> cmd, site |-> site,
                               late |-> expired])
    /\ hung' \in (IF CtxDone(CtxOf(site)) THEN {FALSE} ELSE BOOLEAN)

\* Where main goes after a navigation returned e (lines 97-99, 104-106).
AfterNavigateLenient(e, next) == next
AfterNavigate(e, next) == IF e # NoErr THEN "fatal" ELSE next

\* Where main goes after an extraction step, whatever its outcome
\* (lines 112-122, 125-135, 138-149).
AfterStepAbort(e, next) == IF e # NoErr THEN "done" ELSE next
AfterStep(e, next) == next

\* Whether main saves the artifact of an extraction that returned e.
SavesAlways(e) == TRUE
Saves(e) == e = NoErr

\* os.WriteFile(path, data, 0644): the file is replaced, or cannot be opened,
\* or is created and the write fails.
WriteResults == {NoErr, "open failed", "write failed"}
WriteFile(path, data, res) ==
    /\ writes' = Append(writes, path)
    /\ fs' = CASE res = NoErr          -> (path :> data) @@ fs
               [] res = "write failed" -> (path :> <<>>) @@ fs
               [] OTHER                -> fs

\* Line 94.
Navigate1Call ==
    /\ BrowserCall("nav1", "Navigate", "nav1_wait")
    /\ mainDocSeen' = FALSE
    /\ UNCHANGED <<envVars, argVars, fileVars, output, listening, expired,
                   statusCode, statusText, nEvents, mainStatus, err, dataVars>>

Navigate1Return ==
    /\ pc = "nav1_wait"
    /\ \E e \in RunResults("nav1") : err' = e
    /\ hung' = FALSE
    /\ pc' = "classify"
    /\ UNCHANGED <<envVars, argVars, fileVars, output, listening, expired,
                   listenerVars, calls, dataVars>>

\* Line 96 and listNetworkRequests (lines 206-227): main reads statusCode and
\* statusText and prints the classification.
ListNetworkRequests ==
    /\ pc = "classify"
    /\ output' = output \o ListOutput(statusCode, statusText)
    /\ pc' = "check1"
    /\ UNCHANGED <<envVars, argVars, fileVars, listening, expired,
                   listenerVars, calls, hung, err, dataVars>>

\* Lines 97-99.
CheckNavigate1 ==
    /\ pc = "check1"
    /\ pc' = AfterNavigate(err, "nav2")
    /\ output' = IF err # NoErr
                 THEN Append(output, Line("Failed to navigate", 0, err))
                 ELSE output
    /\ UNCHANGED <<envVars, argVars, fileVars, listening, expired,
                   listenerVars, calls, hung, err, dataVars>>

\* Line 102.
Navigate2Call ==
    /\ BrowserCall("nav2", "Navigate", "nav2_wait")
    /\ mainDocSeen' = FALSE
    /\ UNCHANGED <<envVars, argVars, fileVars, output, listening, expired,
                   statusCode, statusText, nEvents, mainStatus, err, dataVars>>

\* Lines 102-106.
Navigate2Return ==
    /\ pc = "nav2_wait"
    /\ \E e \in RunResults("nav2") :
         /\ err' = e
         /\ pc' = AfterNavigate(e, "html")
         /\ output' = IF e # NoErr
                      THEN Append(output, Line("Failed to navigate", 0, e))
                      ELSE output
    /\ hung' = FALSE
    /\ UNCHANGED <<envVars, argVars, fileVars, listening, expired,
                   listenerVars, calls, dataVars>>

\* Lines 109, 156.
ContentRetrievalCall ==
    /\ BrowserCall("html", "OuterHTML", "html_wait")
    /\ UNCHANGED <<envVars, argVars, fileVars, output, listening, expired,
                   listenerVars, err, dataVars>>

\* contentRetrieval returns (lines 156-162).
ContentRetrievalReturn ==
    /\ pc = "html_wait"
    /\ \E e \in RunResults("html") :
         /\ err' = e
         /\ IF e = NoErr
            THEN /\ htmlData' \in HtmlDocs
                 /\ UNCHANGED output
            ELSE /\ htmlData' = <<>>
                 /\ output' = Append(output, Line("Error retrieving content", 0, e))
    /\ hung' = FALSE
    /\ pc' = "html_save"
    /\ UNCHANGED <<envVars, argVars, fileVars, listening, expired,
                   listenerVars, calls, imgData, dom, links>>

\* Lines 112-122.
SaveHTML ==
    /\ pc = "html_save"
    /\ pc' = AfterStep(err, "shot")
    /\ IF Saves(err)
       THEN \E res \in WriteResults :
              /\ WriteFile(SavePath(folderPath, PageHTML), htmlData, res)
              /\ output' = Append(output,
                    IF res = NoErr THEN Line("HTML content saved", 0, NoErr)
                    ELSE Line("Failed to save HTML file", 0, res))
       ELSE /\ output' = Append(output, Line("Failed to retrieve content", 0, err))
            /\ UNCHANGED fileVars
    /\ UNCHANGED <<envVars, argVars, listening, expired, listenerVars, calls,
                   hung, err, dataVars>>

\* Lines 124, 171.
CaptureScreenshotCall ==
    /\ BrowserCall("shot", "FullScreenshot", "shot_wait")
    /\ UNCHANGED <<envVars, argVars, fileVars, output, listening, expired,
                   listenerVars, err, dataVars>>

\* captureScreenshot returns (lines 171-178).
CaptureScreenshotReturn ==
    /\ pc = "shot_wait"
    /\ \E e \in RunResults("shot") :
         /\ err' = e
         /\ IF e = NoErr
            THEN /\ imgData' \in Screenshots
                 /\ UNCHANGED output
            ELSE /\ imgData' = <<>>
                 /\ output' = Append(output, Line("Error capturing screenshot", 0, e))
    /\ hung' = FALSE
    /\ pc' = "shot_save"
    /\ UNCHANGED <<envVars, argVars, fileVars, listening, expired,
                   listenerVars, calls, htmlData, dom, links>>

\* Lines 125-135.
SaveScreenshot ==
    /\ pc = "shot_save"
    /\ pc' = AfterStep(err, "links")
    /\ IF Saves(err)
       THEN \E res \in WriteResults :
              /\ WriteFile(SavePath(folderPath, ScreenshotPNG), imgData, res)
              /\ output' = Append(output,
                    IF res = NoErr THEN Line("Screenshot saved", 0, NoErr)
                    ELSE Line("Failed to save screenshot", 0, res))
       ELSE /\ output' = Append(output, Line("Image fault", 0, err))
            /\ UNCHANGED fileVars
    /\ UNCHANGED <<envVars, argVars, listening, expired, listenerVars, calls,
                   hung, err, dataVars>>

\* Lines 137, 192.
ExtractLinksCall ==
    /\ BrowserCall("links", "Evaluate", "links_wait")
    /\ UNCHANGED <<envVars, argVars, fileVars, output, listening, expired,
                   listenerVars, err, dataVars>>

\* The strings the evaluation can hand back for a page with anchors d: the
\* script's own result, or text that is no JSON array of strings (the
\* script runs in the page, which may have replaced JSON.stringify).
EvaluateResults(d) ==
    {JsonStringify(ScriptLinks(d)), << Tok("["), Tok(","), Tok("]") >>}

\* What extractLinks returns when chromedp.Run returned e and the evaluation
\* gave jsonResult (lines 192-202).
ExtractLinksResult(e, jsonResult) ==
    IF e # NoErr THEN [err |-> ErrExtract, val |-> <<>>]
    ELSE JsonUnmarshal(jsonResult)

\* extractLinks returns (lines 192-202).
ExtractLinksReturn ==
    /\ pc = "links_wait"
    /\ \E e \in RunResults("links") :
         IF e # NoErr
         THEN /\ err' = ExtractLinksResult(e, <<>>).err
              /\ links' = <<>>
              /\ UNCHANGED dom
         ELSE \E d \in Pages : \E jsonResult \in EvaluateResults(d) :
                /\ dom' = d
                /\ err' = ExtractLinksResult(e, jsonResult).err
                /\ links' = ExtractLinksResult(e, jsonResult).val
    /\ hung' = FALSE
    /\ pc' = "links_save"
    /\ UNCHANGED <<envVars, argVars, fileVars, output, listening, expired,
                   listenerVars, calls, htmlData, imgData>>

\* Lines 138-149.
SaveLinks ==
    /\ pc = "links_save"
    /\ pc' = AfterStep(err, "done")
    /\ IF Saves(err)
       THEN \E res \in WriteResults :
              /\ WriteFile(SavePath(folderPath, LinksTXT),
                           StringsJoin(links, <<"\n">>), res)
              /\ output' = Append(output,
                    IF res = NoErr THEN Line("Links saved", Len(links), NoErr)
                    ELSE Line("Failed to save links", 0, res))
       ELSE /\ output' = Append(output, Line("Failed to extract links", 0, err))
            /\ UNCHANGED fileVars
    /\ UNCHANGED <<envVars, argVars, listening, expired, listenerVars, calls,
                   hung, err, dataVars>>

\* One step of main.
Main ==
    \/ CheckArgs
    \/ ParseURL
    \/ MkdirAll
    \/ NewContext
    \/ Navigate1Call
    \/ Navigate1Return
    \/ ListNetworkRequests
    \/ CheckNavigate1
    \/ Navigate2Call
    \/ Navigate2Return
    \/ ContentRetrievalCall
    \/ ContentRetrievalReturn
    \/ SaveHTML
    \/ CaptureScreenshotCall
    \/ CaptureScreenshotReturn
    \/ SaveScreenshot
    \/ ExtractLinksCall
    \/ ExtractLinksReturn
    \/ SaveLinks

Next ==
    \/ Main
    \/ Timeout
    \/ ResponseReceived

Spec == Init /\ [][Next]_vars

\* The main goroutine keeps running and time passes.
FairSpec == Spec /\ WF_vars(Main) /\ WF_vars(Timeout)

\* ------------------------------------------------- the classification alone
\* main at line 96 with any status code in statusCode.
CodeRange == (0 - 2)..MaxCode
InitClassify ==
    /\ pc = "classify"
    /\ osArgs = <<ProgramName, HostURL>>
    /\ now \in Timestamps
    /\ rawURL = HostURL
    /\ folderPath = FolderPath(now, UrlParse(HostURL).hostname)
    /\ dirs = {ScrapedData, folderPath}
    /\ fs = <<>>
    /\ writes = <<>>
    /\ output = << Line("Navigating to URL", 0, HostURL),
                   Line("The Registry folder is created.", 0, NoErr),
                   Line("Targeting URL", 0, HostURL) >>
    /\ listening = TRUE
    /\ expired = FALSE
    /\ statusCode \in CodeRange
    /\ statusText \in {"", "Status"}
    /\ nEvents = 0
    /\ mainDocSeen = (statusCode # 0)
    /\ mainStatus = [code |-> statusCode, text |-> statusText]
    /\ calls = << [cmd |-> "Navigate", site |-> "nav1", late |-> FALSE] >>
    /\ hung = FALSE
    /\ err \in {NoErr, ErrBrowser}
    /\ htmlData = <<>>
    /\ imgData = <<>>
    /\ dom = <<>>
    /\ links = <<>>

NextClassify == ListNetworkRequests

SpecClassify == InitClassify /\ [][NextClassify]_vars

\* ------------------------------------------------------------- observations
HasLine(msg) == \E i \in DOMAIN output : output[i].msg = msg
CountLines(msgs) == Len(SelectSeq(output, LAMBDA l : l.msg \in msgs))
Cmds == [i \in DOMAIN calls |-> calls[i].cmd]
Navigations == SelectSeq(Cmds, LAMBDA c : c = "Navigate")
Extractions == SelectSeq(Cmds, LAMBDA c : c # "Navigate")
ExtractionOrder == <<"OuterHTML", "FullScreenshot", "Evaluate">>
ArtifactPath(a) == SavePath(folderPath, a)
Exists(a) == ArtifactPath(a) \in DOMAIN fs
NavigationPhase == {"nav1", "nav1_wait", "classify", "check1", "nav2", "nav2_wait"}
ExtractionPhase == {"html", "html_wait", "html_save", "shot", "shot_wait",
                    "shot_save", "links", "links_wait", "links_save"}
WaitStates == {"nav1_wait", "nav2_wait", "html_wait", "shot_wait", "links_wait"}

\* The lines a step prints: saved, extraction failed, write failed.
SavedLine(a) ==
    CASE a = PageHTML      -> "HTML content saved"
      [] a = ScreenshotPNG -> "Screenshot saved"
      [] a = LinksTXT      -> "Links saved"
ExtractFailedLine(a) ==
    CASE a = PageHTML      -> "Failed to retrieve content"
      [] a = ScreenshotPNG -> "Image fault"
      [] a = LinksTXT      -> "Failed to extract links"
WriteFailedLine(a) ==
    CASE a = PageHTML      -> "Failed to save HTML file"
      [] a = ScreenshotPNG -> "Failed to save screenshot"
      [] a = LinksTXT      -> "Failed to save links"
CommandOf(a) ==
    CASE a = PageHTML      -> "OuterHTML"
      [] a = ScreenshotPNG -> "FullScreenshot"
      [] a = LinksTXT      -> "Evaluate"
SaveState(a) ==
    CASE a = PageHTML      -> "html_save"
      [] a = ScreenshotPNG -> "shot_save"
      [] a = LinksTXT      -> "links_save"

\* ------------------------------------------------------------------ claims

\* A navigation call has returned an error.
NavigationFailed ==
    \/ pc \in {"classify", "check1"} /\ err # NoErr
    \/ HasLine("Failed to navigate")

\* C1: navigation failure is fatal. Whenever a navigation call has returned
\* an error, the run exits without sending OuterHTML, FullScreenshot or
\* Evaluate to the browser and without writing any file.
C1_NavigationFailureFatal ==
    NavigationFailed =>
        /\ pc \in {"classify", "check1", "fatal"}
        /\ HasLine("Failed to navigate") => pc = "fatal"
        /\ Extractions = <<>>
        /\ writes = <<>>
        /\ DOMAIN fs = {}
\* The second navigation call returned an error and the run has exited.
C1_Witness ==
    /\ pc = "fatal"
    /\ HasLine("Failed to navigate")
    /\ Len(Navigations) = 2
    /\ err = ErrBrowser

IsPrefix(s, t) == Len(s) <= Len(t) /\ s = SubSeq(t, 1, Len(s))

\* C2: the extraction steps are independent. The extraction commands are
\* sent in the order OuterHTML, FullScreenshot, Evaluate, each at most once;
\* a run past the navigations ends only after all three were sent, whatever
\* the earlier steps returned; and each step reports exactly one outcome of
\* its own, its file being there when it reports it saved.
C2_StepsIndependent ==
    /\ IsPrefix(Extractions, ExtractionOrder)
    /\ pc = "fatal" => Extractions = <<>>
    /\ pc = "done" =>
         /\ Extractions = ExtractionOrder
         /\ \A a \in ArtifactNames :
              /\ CountLines({SavedLine(a), ExtractFailedLine(a), WriteFailedLine(a)}) = 1
              /\ HasLine(SavedLine(a)) => Exists(a)
\* The HTML extraction failed, the screenshot could not be written, and the
\* links were still extracted and saved.
C2_Witness ==
    /\ pc = "done"
    /\ HasLine(ExtractFailedLine(PageHTML))
    /\ HasLine(WriteFailedLine(ScreenshotPNG))
    /\ HasLine(SavedLine(LinksTXT))
    /\ Exists(LinksTXT)

\* The run is over and every step reported its artifact saved.
AllSaved == pc = "done" /\ \A a \in ArtifactNames : HasLine(SavedLine(a))

\* C3 as stated: when the navigations, the three extractions and the three
\* writes succeed, the three files exist and each has non-empty content,
\* for every page.
C3_AllFilesNonEmpty ==
    AllSaved => \A a \in ArtifactNames : Exists(a) /\ fs[ArtifactPath(a)] # <<>>
\* C3 as amended: in such a run the three files exist, page.html and
\* screenshot.png have non-empty content, and links.txt has non-empty content
\* exactly when the page has an anchor with a non-empty href: for a page
\* without one links.txt is created empty.
C3_FilesCreated ==
    AllSaved =>
        /\ \A a \in ArtifactNames : Exists(a)
        /\ fs[ArtifactPath(PageHTML)] # <<>>
        /\ fs[ArtifactPath(ScreenshotPNG)] # <<>>
        /\ fs[ArtifactPath(LinksTXT)] # <<>> <=> \E i \in DOMAIN dom : dom[i].href # <<>>
\* A page with no anchor elements: links.txt is there and empty.
C3_Witness ==
    /\ AllSaved
    /\ dom = <<>>
    /\ Exists(LinksTXT)
    /\ fs[ArtifactPath(LinksTXT)] = <<>>

\* The categories, and the codes each is for.
Categories == {"SUCCESSFUL", "REDIRECTION", "FORBIDDEN", "NOT FOUND",
               "CLIENT ERROR", "SERVER ERROR", "UNKNOWN STATUS"}
InCategory(c, code) ==
    CASE c = "SUCCESSFUL"   -> code \in 200..299
      [] c = "REDIRECTION"  -> code \in 300..399
      [] c = "FORBIDDEN"    -> code = 403
      [] c = "NOT FOUND"    -> code = 404
      [] c = "CLIENT ERROR" -> code \in 400..499 /\ code \notin {403, 404}
      [] c = "SERVER ERROR" -> code >= 500
      [] c = "UNKNOWN STATUS" ->
            /\ code # 0
            /\ code \notin 200..499
            /\ ~(code >= 500)
\* The lines of the classification in the output.
Printed == SelectSeq(output, LAMBDA l : l.msg \in Categories \cup {"Request network"})

\* C4: the classification prints nothing for code 0 and, for any other code,
\* the status line and exactly one category: 200-299 successful, 300-399
\* redirection, 403 forbidden, 404 not found, the other 400-499 client error,
\* 500 and above server error, anything else unknown.
C4_Classification ==
    pc = "check1" =>
        IF statusCode = 0 THEN Printed = <<>>
        ELSE /\ Len(Printed) = 2
             /\ Printed[1] = Line("Request network", statusCode, statusText)
             /\ Printed[2].msg \in Categories
             /\ {c \in Categories : InCategory(c, statusCode)} = {Printed[2].msg}
\* 403 was classified, as forbidden.
C4_Witness ==
    /\ pc = "check1"
    /\ statusCode = 403
    /\ Len(Printed) = 2
    /\ Printed[2].msg = "FORBIDDEN"

\* C5: every os.WriteFile of the run goes to page.html, screenshot.png or
\* links.txt inside the one output folder the run created (besides its
\* parent scraped_data), and to each at most once; there is no other file.
C5_OnlyThreeFiles ==
    /\ dirs \subseteq {ScrapedData, folderPath}
    /\ \A i \in DOMAIN writes :
         /\ writes[i] \in {ArtifactPath(a) : a \in ArtifactNames}
         /\ writes[i][1] = folderPath
         /\ folderPath \in dirs
         /\ \A j \in DOMAIN writes : writes[i] = writes[j] => i = j
    /\ DOMAIN fs \subseteq {writes[i] : i \in DOMAIN writes}
\* All three files were written.
C5_Witness ==
    /\ pc = "done"
    /\ Len(writes) = 3
    /\ \A a \in ArtifactNames : Exists(a)

\* C6: between the launch of the browser and the first extraction step there
\* is exactly one navigation request.
C6_NavigatedOnce ==
    (pc \in ExtractionPhase \cup {"done"}) => Len(Navigations) = 1

\* C7: the status handed to the classification is that of the top-level
\* navigation's own response, whatever other responses arrived.
C7_MainDocumentStatus ==
    pc = "classify" =>
        /\ statusCode = mainStatus.code
        /\ statusText = mainStatus.text

\* C8: the listener never writes statusCode or statusText while main reads
\* them for the classification, or afterwards.
C8_NoWriteAfterRead ==
    [][pc \notin {"start", "parse", "mkdir", "setup", "nav1", "nav1_wait"} =>
          /\ statusCode' = statusCode
          /\ statusText' = statusText]_vars

\* C9: every run ends under the one deadline. A browser call that returns
\* after the deadline returns an error; no file is written for a call made
\* after it; the run ends; it ends fatally when the deadline passes during
\* the navigations, and after the last extraction step otherwise.
C9_Deadline ==
    /\ [][(expired /\ pc \in WaitStates /\ pc' # pc) => err' # NoErr]_vars
    /\ [](\A i \in DOMAIN calls : \A a \in ArtifactNames :
            (calls[i].late /\ calls[i].cmd = CommandOf(a)) => ~Exists(a))
    /\ <>Terminated
    /\ [][(expired /\ pc \in NavigationPhase) =>
             (pc' \in NavigationPhase \/ pc' = "fatal")]_vars
    /\ [][(pc \in ExtractionPhase) => (pc' \in ExtractionPhase \/ pc' = "done")]_vars
\* The deadline passed before the screenshot call, which failed; the run is
\* over and screenshot.png was not written.
C9_Witness ==
    /\ pc = "done"
    /\ expired
    /\ \E i \in DOMAIN calls : calls[i].cmd = "FullScreenshot" /\ calls[i].late
    /\ Exists(PageHTML)
    /\ ~Exists(ScreenshotPNG)
    /\ ~Exists(LinksTXT)

\* C10: an artifact is written only when its extraction returned no error:
\* os.WriteFile is called for it only with err nil at its step, and a step
\* that reported an extraction error leaves no file.
C10_WrittenOnlyOnSuccess ==
    /\ [](\A a \in ArtifactNames :
            (HasLine(ExtractFailedLine(a)) => ~Exists(a)))
    /\ [][\A a \in ArtifactNames :
            (ArtifactPath(a) \in DOMAIN fs' /\ ~Exists(a)) =>
                (pc = SaveState(a) /\ err = NoErr)]_vars
    /\ [][writes' # writes => err = NoErr]_vars
\* The evaluation succeeded, its result did not decode, and there is no
\* links.txt.
C10_Witness ==
    /\ pc = "done"
    /\ err = ErrUnmarshal
    /\ HasLine(ExtractFailedLine(LinksTXT))
    /\ ~Exists(LinksTXT)
    /\ Exists(PageHTML)

====
